---- MODULE Spec2Model ----
(***************************************************************************)
(* Model of .github/scripts/code_review.py: main() fetches the diff of a   *)
(* pull request, analyze_code_changes() parses it into per-file counts,    *)
(* renders the Change Summary, filters the diff for the prompt, calls the  *)
(* narrative generator and assembles the report, and post_pr_comment()     *)
(* posts it.                                                               *)
(*                                                                         *)
(* A line of text is a sequence of one-character strings, so startswith,   *)
(* split and slicing are computed character by character.  A text is held  *)
(* as the list of its lines (diff_text.splitlines()).                      *)
(***************************************************************************)
EXTENDS Naturals, Sequences, FiniteSets

\* ---------------------------------------------------------------- bounds
\* Longest enumerated diff, in lines.
MaxLines == 3
\* Longest enumerated narrative response, in lines.
MaxBodyLen == 4

\* ------------------------------------------------- string literals of the code
\* 'diff --git' (lines 34, 74)
DIFF_GIT ==
    <<"d","i","f","f"," ","-","-","g","i","t">>

\* '.github/' (lines 51, 77)
GITHUB_PREFIX ==
    <<".","g","i","t","h","u","b","/">>

\* 'new file mode' (line 45)
NEW_FILE_MODE ==
    <<"n","e","w"," ","f","i","l","e"," ","m","o","d","e">>

\* 'deleted file mode' (line 47)
DELETED_FILE_MODE ==
    <<"d","e","l","e","t","e","d"," ","f","i","l","e"," ","m","o","d","e">>

\* '+' (line 41)
PLUS ==
    <<"+">>

\* '+++' (line 41)
PLUS3 ==
    <<"+","+","+">>

\* '-' (line 43)
MINUS ==
    <<"-">>

\* '---' (line 43)
MINUS3 ==
    <<"-","-","-">>

\* ------------------------------------------------- the diff lines enumerated
\* header of a.py: diff --git a/a.py b/a.py
HdrA ==
    <<"d","i","f","f"," ","-","-","g","i","t"," ","a","/","a",".","p","y"," ","b","/","a",".","p","y">>

\* header of a file under .github/: diff --git a/.github/x.yml b/.github/x.yml
HdrGithub ==
    <<"d","i","f","f"," ","-","-","g","i","t"," ","a","/",".","g","i","t","h","u","b","/","x",".","y","m","l"," ","b","/",".","g","i","t","h","u","b","/","x",".","y","m","l">>

\* rename header: d/b.py moved to .github/b.py: diff --git a/d/b.py b/.github/b.py
HdrRename ==
    <<"d","i","f","f"," ","-","-","g","i","t"," ","a","/","d","/","b",".","p","y"," ","b","/",".","g","i","t","h","u","b","/","b",".","p","y">>

\* truncated header without path tokens: diff --git
HdrShort ==
    <<"d","i","f","f"," ","-","-","g","i","t">>

\* header whose path tokens carry no path: diff --git a/ b/
HdrNoPath ==
    <<"d","i","f","f"," ","-","-","g","i","t"," ","a","/"," ","b","/">>

\* hunk marker: @@ -1 +1 @@
HunkLine ==
    <<"@","@"," ","-","1"," ","+","1"," ","@","@">>

\* added content line 'x': +x
AddLine ==
    <<"+","x">>

\* removed content line 'x': -x
RemLine ==
    <<"-","x">>

\* '+++' file-header line: +++ b/a.py
PlusHeaderLine ==
    <<"+","+","+"," ","b","/","a",".","p","y">>

\* '---' file-header line: --- a/a.py
MinusHeaderLine ==
    <<"-","-","-"," ","a","/","a",".","p","y">>

\* added content line whose content is '++x': +++x
AddPlusPlusLine ==
    <<"+","+","+","x">>

\* mode line of a created file: new file mode 100644
NewModeLine ==
    <<"n","e","w"," ","f","i","l","e"," ","m","o","d","e"," ","1","0","0","6","4","4">>

\* mode line of a deleted file: deleted file mode 100644
DelModeLine ==
    <<"d","e","l","e","t","e","d"," ","f","i","l","e"," ","m","o","d","e"," ","1","0","0","6","4","4">>

DiffLines ==
    { HdrA, HdrGithub, HdrRename, HdrShort, HdrNoPath, HunkLine, AddLine, RemLine,
      PlusHeaderLine, MinusHeaderLine, AddPlusPlusLine, NewModeLine, DelModeLine }

\* Parser correctness scenario: one file, 3 added and 2 removed content lines
\* under the standard file-header lines.
ScenarioParser ==
    << HdrA, MinusHeaderLine, PlusHeaderLine, HunkLine,
       AddLine, AddLine, AddLine, RemLine, RemLine >>

\* End-to-end scenario: a.py (+5/-1) and .github/x.yml (+2/-0).
ScenarioEndToEnd ==
    << HdrA, HunkLine, AddLine, AddLine, AddLine, AddLine, AddLine, RemLine,
       HdrGithub, HunkLine, AddLine, AddLine >>

ScenarioDiffs ==
    { ScenarioParser, ScenarioEndToEnd }

\* All sequences over S of length at most n.
BoundedSeq(S, n) ==
    UNION { [1..k -> S] : k \in 0..n }

\* The texts the Diff Source may return, as lists of lines.
Diffs ==
    BoundedSeq(DiffLines, MaxLines) \cup ScenarioDiffs

\* ------------------------------------------------------------ Python values
\* None is the empty option, a value v is <<v>>.
None ==
    << >>

Some(v) ==
    << v >>

\* Truth value of `current` (lines 39, 45, 47): None and '' are false.
Truthy(opt) ==
    opt # None /\ opt[1] # << >>

\* str.startswith
StartsWith(s, prefix) ==
    /\ Len(s) >= Len(prefix)
    /\ SubSeq(s, 1, Len(prefix)) = prefix

\* str.split(): the maximal runs of non-blank characters, in order.
RECURSIVE SplitFrom(_, _, _, _)
SplitFrom(s, k, tok, parts) ==
    IF k > Len(s)
    THEN IF tok = << >> THEN parts ELSE Append(parts, tok)
    ELSE IF s[k] = " "
         THEN SplitFrom(s, k + 1, << >>, IF tok = << >> THEN parts ELSE Append(parts, tok))
         ELSE SplitFrom(s, k + 1, Append(tok, s[k]), parts)

Split(s) ==
    SplitFrom(s, 1, << >>, << >>)

\* parts[2][2:] of a header's tokens (lines 36, 76): the third token without
\* its first two characters.  Defined when the header has three tokens.
HeaderPath(parts) ==
    SubSeq(parts[3], 3, Len(parts[3]))

\* os.path.basename (line 57): what follows the last '/'.
RECURSIVE Basename(_)
Basename(path) ==
    IF \E k \in 1..Len(path) : path[k] = "/"
    THEN Basename(Tail(path))
    ELSE path

\* -------------------------------------------------------------- dict `files`
\* A dict is its keys in insertion order together with the value of each key.
EmptyDict ==
    [order |-> << >>, data |-> << >>]

\* Variant of DictSet: the key moves to the end, as after del and insert.
DictSet_MoveToEnd(d, key, value) ==
    [order |-> Append(SelectSeq(d.order, LAMBDA k : k # key), key),
     data  |-> [k \in (DOMAIN d.data) \cup {key} |->
                  IF k = key THEN value ELSE d.data[k]]]

\* files[path] = value (line 38): a key already present keeps its position.
DictSet(d, key, value) ==
    [order |-> IF key \in DOMAIN d.data THEN d.order ELSE Append(d.order, key),
     data  |-> [k \in (DOMAIN d.data) \cup {key} |->
                  IF k = key THEN value ELSE d.data[k]]]

\* The value stored by line 38.
NewStats ==
    [adds |-> 0, removes |-> 0, hunks |-> << >>, added |-> FALSE, deleted |-> FALSE]

\* ------------------------------------------------ the parsing loop, lines 33-48
\* Lines 40-44: the line joins the current file's hunks and is counted.
CountLine(stats, line) ==
    [stats EXCEPT
       !.hunks   = Append(@, line),
       !.adds    = IF StartsWith(line, PLUS) /\ ~StartsWith(line, PLUS3)
                   THEN @ + 1 ELSE @,
       !.removes = IF StartsWith(line, PLUS) /\ ~StartsWith(line, PLUS3)
                   THEN @
                   ELSE IF StartsWith(line, MINUS) /\ ~StartsWith(line, MINUS3)
                        THEN @ + 1 ELSE @]

\* Variant of ApplyModeFlags: the second test sets 'added' as the first does.
ApplyModeFlags_DeletedSetsAdded(fs, cur, line) ==
    LET f1 == IF StartsWith(line, NEW_FILE_MODE) /\ Truthy(cur)
              THEN [fs EXCEPT !.data[cur[1]].added = TRUE]
              ELSE fs
    IN  IF StartsWith(line, DELETED_FILE_MODE) /\ Truthy(cur)
        THEN [f1 EXCEPT !.data[cur[1]].added = TRUE]
        ELSE f1

\* Lines 45-48: a mode line marks the current file.
ApplyModeFlags(fs, cur, line) ==
    LET f1 == IF StartsWith(line, NEW_FILE_MODE) /\ Truthy(cur)
              THEN [fs EXCEPT !.data[cur[1]].added = TRUE]
              ELSE fs
    IN  IF StartsWith(line, DELETED_FILE_MODE) /\ Truthy(cur)
        THEN [f1 EXCEPT !.data[cur[1]].deleted = TRUE]
        ELSE f1

\* One iteration of the loop body on `line`.  raised is TRUE when parts[2]
\* (line 36) indexes past the end of the token list (IndexError).
ParseLine(fs, cur, line) ==
    IF StartsWith(line, DIFF_GIT)
    THEN LET parts == Split(line)
         IN  IF Len(parts) < 3
             THEN [files |-> fs, current |-> cur, raised |-> TRUE]
             ELSE LET path == HeaderPath(parts)
                      f1   == DictSet(fs, path, NewStats)
                  IN  [files   |-> ApplyModeFlags(f1, Some(path), line),
                       current |-> Some(path),
                       raised  |-> FALSE]
    ELSE LET f1 == IF Truthy(cur)
                   THEN [fs EXCEPT !.data[cur[1]] = CountLine(@, line)]
                   ELSE fs
         IN  [files   |-> ApplyModeFlags(f1, cur, line),
              current |-> cur,
              raised  |-> FALSE]

\* --------------------------------------------------------------------- state
VARIABLES
    pc,              \* the statement main() is at
    failed,          \* the call that raised, "" while none has
    diff,            \* diff_text.splitlines() (lines 33, 73); None before the fetch
    idx,             \* position of the parsing loop of line 33 (next line, from 1)
    files,           \* the dict `files` (lines 31, 51)
    current,         \* the variable `current` (line 32)
    change_summary,  \* the rows and the total row of lines 54-68
    filtered_diff,   \* the list `filtered_diff` (lines 71-82)
    body,            \* the narrative generator's response (line 105)
    report,          \* the value analyze_code_changes returns (line 146)
    post_calls       \* the comments post_pr_comment was called with, in order

vars ==
    << pc, failed, diff, idx, files, current, change_summary, filtered_diff,
       body, report, post_calls >>

Init ==
    /\ pc = "read_event"
    /\ failed = ""
    /\ diff = None
    /\ idx = 1
    /\ files = EmptyDict
    /\ current = None
    /\ change_summary = None
    /\ filtered_diff = None
    /\ body = None
    /\ report = None
    /\ post_calls = << >>

\* An uncaught exception ends the run.
Abort(call) ==
    /\ pc' = "aborted"
    /\ failed' = call

\* Lines 160-162: the event file is read and holds the pull request number.
ReadEvent ==
    /\ pc = "read_event"
    /\ pc' = "get_pr_diff"
    /\ UNCHANGED << failed, diff, idx, files, current, change_summary,
                    filtered_diff, body, report, post_calls >>

\* Lines 160-162: open, json.load or a missing key raises.
ReadEventFail ==
    /\ pc = "read_event"
    /\ Abort("read_event")
    /\ UNCHANGED << diff, idx, files, current, change_summary, filtered_diff,
                    body, report, post_calls >>

\* Lines 8-19 and 163: the Diff Source answers with a diff; analyze_code_changes
\* starts (lines 31-32) and goes to the loop, or past it when there is no line.
GetPrDiff ==
    /\ pc = "get_pr_diff"
    /\ \E d \in Diffs :
         /\ diff' = Some(d)
         /\ pc' = IF d = << >> THEN "exclude" ELSE "parse"
    /\ idx' = 1
    /\ files' = EmptyDict
    /\ current' = None
    /\ UNCHANGED << failed, change_summary, filtered_diff, body, report, post_calls >>

\* Variant of GetPrDiffFail: the status is not checked and the run goes on
\* with an empty text.
GetPrDiffFail_NoRaise ==
    /\ pc = "get_pr_diff"
    /\ failed' = "get_pr_diff"
    /\ diff' = Some(<< >>)
    /\ pc' = "exclude"
    /\ UNCHANGED << idx, files, current, change_summary, filtered_diff,
                    body, report, post_calls >>

\* Lines 17-18: the request fails or raise_for_status raises.
GetPrDiffFail ==
    /\ pc = "get_pr_diff"
    /\ Abort("get_pr_diff")
    /\ UNCHANGED << diff, idx, files, current, change_summary, filtered_diff,
                    body, report, post_calls >>

\* Lines 33-48: one iteration of the parsing loop; after the last line the
\* function goes on to line 51.
ParseStep ==
    /\ pc = "parse"
    /\ idx <= Len(diff[1])
    /\ LET r == ParseLine(files, current, diff[1][idx])
       IN  IF r.raised
           THEN /\ Abort("parse")
                /\ UNCHANGED << idx, files, current >>
           ELSE /\ files' = r.files
                /\ current' = r.current
                /\ idx' = idx + 1
                /\ pc' = IF idx = Len(diff[1]) THEN "exclude" ELSE "parse"
                /\ UNCHANGED failed
    /\ UNCHANGED << diff, change_summary, filtered_diff, body, report, post_calls >>

\* ------------------------------------------------ Change Summary, lines 50-68
\* Line 51: the dict comprehension keeps, in order, the keys not under .github/.
ExcludeGithub(fs) ==
    LET keep(path) == ~StartsWith(path, GITHUB_PREFIX)
    IN  [order |-> SelectSeq(fs.order, keep),
         data  |-> [k \in {q \in DOMAIN fs.data : keep(q)} |-> fs.data[k]]]

Digits ==
    << "0", "1", "2", "3", "4", "5", "6", "7", "8", "9" >>

\* str(n) in decimal.
RECURSIVE Decimal(_)
Decimal(n) ==
    IF n < 10
    THEN << Digits[n + 1] >>
    ELSE Append(Decimal(n \div 10), Digits[(n % 10) + 1])

RECURSIVE PadLeft(_, _)
PadLeft(s, width) ==
    IF Len(s) >= width THEN s ELSE PadLeft(<< " " >> \o s, width)

\* The format spec {n:>width} of lines 62 and 67.
Format(n, width) ==
    PadLeft(Decimal(n), width)

\* Lines 57-62: the row of one file; the cells are the formatted fields.
SummaryRow(path, stats) ==
    [name    |-> Basename(path),
     adds    |-> Format(stats.adds, 4),
     removes |-> Format(stats.removes, 4),
     total   |-> Format(stats.adds + stats.removes, 5)]

\* Variant of ChangeSummaryLoop: the removed total accumulates the added counts.
RECURSIVE ChangeSummaryLoop_WrongTotal(_, _, _, _, _)
ChangeSummaryLoop_WrongTotal(fs, k, summary_rows, total_adds, total_removes) ==
    IF k > Len(fs.order)
    THEN [rows  |-> summary_rows,
          total |-> [adds    |-> Format(total_adds, 4),
                     removes |-> Format(total_removes, 4),
                     total   |-> Format(total_adds + total_removes, 5)]]
    ELSE LET path  == fs.order[k]
             stats == fs.data[path]
         IN  ChangeSummaryLoop_WrongTotal(fs, k + 1,
                               Append(summary_rows, SummaryRow(path, stats)),
                               total_adds + stats.adds,
                               total_removes + stats.adds)

\* Lines 54-68: the loop over files.items() from the k-th key on, then the
\* total row of line 67.
RECURSIVE ChangeSummaryLoop(_, _, _, _, _)
ChangeSummaryLoop(fs, k, summary_rows, total_adds, total_removes) ==
    IF k > Len(fs.order)
    THEN [rows  |-> summary_rows,
          total |-> [adds    |-> Format(total_adds, 4),
                     removes |-> Format(total_removes, 4),
                     total   |-> Format(total_adds + total_removes, 5)]]
    ELSE LET path  == fs.order[k]
             stats == fs.data[path]
         IN  ChangeSummaryLoop(fs, k + 1,
                               Append(summary_rows, SummaryRow(path, stats)),
                               total_adds + stats.adds,
                               total_removes + stats.removes)

ChangeSummary(fs) ==
    ChangeSummaryLoop(fs, 1, << >>, 0, 0)

\* ---------------------------------------------- prompt diff, lines 70-83
\* Variant of FilterLoop: once set, skip stays set.
RECURSIVE FilterLoop_StickySkip(_, _, _, _)
FilterLoop_StickySkip(lines, k, skip, out) ==
    IF k > Len(lines)
    THEN [filtered |-> out, raised |-> FALSE]
    ELSE IF StartsWith(lines[k], DIFF_GIT)
         THEN LET parts == Split(lines[k])
              IN  IF Len(parts) < 3
                  THEN [filtered |-> out, raised |-> TRUE]
                  ELSE LET sk == skip \/ StartsWith(HeaderPath(parts), GITHUB_PREFIX)
                       IN  FilterLoop_StickySkip(lines, k + 1, sk,
                                      IF sk THEN out ELSE Append(out, lines[k]))
         ELSE FilterLoop_StickySkip(lines, k + 1, skip,
                         IF skip THEN out ELSE Append(out, lines[k]))

\* The loop of lines 73-82 from the k-th line on.
RECURSIVE FilterLoop(_, _, _, _)
FilterLoop(lines, k, skip, out) ==
    IF k > Len(lines)
    THEN [filtered |-> out, raised |-> FALSE]
    ELSE IF StartsWith(lines[k], DIFF_GIT)
         THEN LET parts == Split(lines[k])
              IN  IF Len(parts) < 3
                  THEN [filtered |-> out, raised |-> TRUE]
                  ELSE LET sk == StartsWith(HeaderPath(parts), GITHUB_PREFIX)
                       IN  FilterLoop(lines, k + 1, sk,
                                      IF sk THEN out ELSE Append(out, lines[k]))
         ELSE FilterLoop(lines, k + 1, skip,
                         IF skip THEN out ELSE Append(out, lines[k]))

FilterDiffLines(lines) ==
    FilterLoop(lines, 1, FALSE, << >>)

\* Line 51.
Exclude ==
    /\ pc = "exclude"
    /\ files' = ExcludeGithub(files)
    /\ pc' = "summary"
    /\ UNCHANGED << failed, diff, idx, current, change_summary, filtered_diff,
                    body, report, post_calls >>

\* Lines 54-68.
BuildChangeSummary ==
    /\ pc = "summary"
    /\ change_summary' = Some(ChangeSummary(files))
    /\ pc' = "filter"
    /\ UNCHANGED << failed, diff, idx, files, current, filtered_diff, body,
                    report, post_calls >>

\* Lines 70-95: the diff of the prompt.
FilterDiff ==
    /\ pc = "filter"
    /\ LET r == FilterDiffLines(diff[1])
       IN  IF r.raised
           THEN /\ Abort("filter")
                /\ UNCHANGED filtered_diff
           ELSE /\ filtered_diff' = Some(r.filtered)
                /\ pc' = "narrative"
                /\ UNCHANGED failed
    /\ UNCHANGED << diff, idx, files, current, change_summary, body, report,
                    post_calls >>

\* ------------------------------------------- narrative response, lines 97-110
\* The response is held as body.split('\n').  A line is a section header
\* '### <title>' (title is what follows '### ': a keycap digit, a blank and
\* text, written here with a plain digit) or a line of prose.
SectionHeader(t) ==
    [title |-> t, text |-> ""]

Prose(t) ==
    [title |-> "", text |-> t]

TITLE_OVERVIEW ==
    "2 PR Overview"

TITLE_FILE_LEVEL ==
    "3 File-level Changes"

TITLE_RECOMMENDATIONS ==
    "4 Recommendations / Improvements"

\* A header the regular expression matches and the report does not use.
TITLE_OTHER ==
    "5 Notes"

BodyLines ==
    { SectionHeader(TITLE_OVERVIEW), SectionHeader(TITLE_FILE_LEVEL),
      SectionHeader(TITLE_RECOMMENDATIONS), SectionHeader(TITLE_OTHER),
      Prose("text"), Prose("") }

\* A str has at least one line.
Bodies ==
    BoundedSeq(BodyLines, MaxBodyLen) \ { << >> }

\* message.content is None: no line at all.
NoContent ==
    << >>

\* The response that follows the prompt's three sections.
WellFormedBody ==
    << SectionHeader(TITLE_OVERVIEW), Prose("text"), Prose(""),
       SectionHeader(TITLE_FILE_LEVEL), Prose("text"), Prose(""),
       SectionHeader(TITLE_RECOMMENDATIONS), Prose("text") >>

\* The responses enumerated for a diff: every bounded response for the
\* scenario diffs, the well-formed one for the others.
NarrativeResponses(d) ==
    IF d \in ScenarioDiffs
    THEN Bodies \cup { WellFormedBody, NoContent }
    ELSE { WellFormedBody, NoContent }

IsHeaderLine(l) ==
    l.title # ""

\* First index from k on where '### <keycap>' occurs (the lookahead of line
\* 109), Len + 1 when there is none (\Z).
RECURSIVE NextHeader(_, _)
NextHeader(b, k) ==
    IF k > Len(b) \/ IsHeaderLine(b[k]) THEN k ELSE NextHeader(b, k + 1)

\* str.strip() of a section's text, as lines: blank lines at both ends go.
RECURSIVE StripLines(_)
StripLines(ls) ==
    IF ls = << >> THEN ls
    ELSE IF Head(ls) = "" THEN StripLines(Tail(ls))
    ELSE IF ls[Len(ls)] = "" THEN StripLines(SubSeq(ls, 1, Len(ls) - 1))
    ELSE ls

\* The text lines k..e-1 of the response.
TextOf(b, k, e) ==
    [j \in 1..(e - k) |-> b[k + j - 1].text]

\* Lines 108-110: re.finditer from line k on.  A header matches when a
\* newline follows it; its section runs to the next header or the end, and
\* a later section of the same title replaces an earlier one.
RECURSIVE CollectSections(_, _, _)
CollectSections(b, k, sections) ==
    IF k > Len(b)
    THEN sections
    ELSE IF IsHeaderLine(b[k]) /\ k < Len(b)
         THEN LET e == NextHeader(b, k + 1)
                  content == StripLines(TextOf(b, k + 1, e))
              IN  CollectSections(b, e,
                    [t \in (DOMAIN sections) \cup { b[k].title } |->
                       IF t = b[k].title THEN content ELSE sections[t]])
         ELSE CollectSections(b, k + 1, sections)

\* sections.get(title, "")
SectionGet(sections, t) ==
    IF t \in DOMAIN sections THEN sections[t] ELSE << >>

\* ------------------------------------------------- the report, lines 112-146
REPORT_TITLE ==
    "## Code Review Summary"

DETAILS_OPEN ==
    "<details>"

DETAILS_CLOSE ==
    "</details>"

SUMMARY_1 ==
    "<summary>1 Change Summary</summary>"

SUMMARY_2 ==
    "<summary>2 File-level Changes</summary>"

SUMMARY_3 ==
    "<summary>3 Recommendations / Improvements</summary>"

\* The element of `output` that is the change_summary text (line 119).
CHANGE_SUMMARY_SLOT ==
    "{change_summary}"

\* Lines 126-134 and 137-144: a section of the report, absent when empty.
DetailsSection(summary, content) ==
    IF content = << >>
    THEN << >>
    ELSE << "", DETAILS_OPEN, summary, "" >> \o content \o << DETAILS_CLOSE >>

\* Variant of BuildOutput: the Recommendations section is appended ahead of
\* the File-level Changes section.
BuildOutput_RecsFirst(sections) ==
    LET overview     == SectionGet(sections, TITLE_OVERVIEW)
        file_changes == SectionGet(sections, TITLE_FILE_LEVEL)
        recs         == SectionGet(sections, TITLE_RECOMMENDATIONS)
    IN  << REPORT_TITLE, "", DETAILS_OPEN, SUMMARY_1, "", CHANGE_SUMMARY_SLOT >>
        \o (IF overview = << >> THEN << >> ELSE << "" >> \o overview)
        \o << DETAILS_CLOSE >>
        \o DetailsSection(SUMMARY_3, recs)
        \o DetailsSection(SUMMARY_2, file_changes)

\* Lines 113-144: the list `output`.
BuildOutput(sections) ==
    LET overview     == SectionGet(sections, TITLE_OVERVIEW)
        file_changes == SectionGet(sections, TITLE_FILE_LEVEL)
        recs         == SectionGet(sections, TITLE_RECOMMENDATIONS)
    IN  << REPORT_TITLE, "", DETAILS_OPEN, SUMMARY_1, "", CHANGE_SUMMARY_SLOT >>
        \o (IF overview = << >> THEN << >> ELSE << "" >> \o overview)
        \o << DETAILS_CLOSE >>
        \o DetailsSection(SUMMARY_2, file_changes)
        \o DetailsSection(SUMMARY_3, recs)

\* Lines 107-146: the report of a change summary and a response.
Report(cs, b) ==
    [lines |-> BuildOutput(CollectSections(b, 1, << >>)), change_summary |-> cs]

\* Lines 97-105: the narrative generator answers.
CallNarrative ==
    /\ pc = "narrative"
    /\ \E b \in NarrativeResponses(diff[1]) : body' = Some(b)
    /\ pc' = "assemble"
    /\ UNCHANGED << failed, diff, idx, files, current, change_summary,
                    filtered_diff, report, post_calls >>

\* Lines 97-104: the client or the request raises.
CallNarrativeFail ==
    /\ pc = "narrative"
    /\ Abort("narrative")
    /\ UNCHANGED << diff, idx, files, current, change_summary, filtered_diff,
                    body, report, post_calls >>

\* Lines 107-146 and 164: the report is built and returned; re.finditer
\* raises TypeError on a response without content.
AssembleReport ==
    /\ pc = "assemble"
    /\ IF body[1] = NoContent
       THEN /\ Abort("assemble")
            /\ UNCHANGED report
       ELSE /\ report' = Some(Report(change_summary[1], body[1]))
            /\ pc' = "post"
            /\ UNCHANGED failed
    /\ UNCHANGED << diff, idx, files, current, change_summary, filtered_diff,
                    body, post_calls >>

\* Lines 149-156 and 165: the comment is posted.
PostPrComment ==
    /\ pc = "post"
    /\ post_calls' = Append(post_calls, report[1])
    /\ pc' = "done"
    /\ UNCHANGED << failed, diff, idx, files, current, change_summary,
                    filtered_diff, body, report >>

\* Lines 154-155: post_pr_comment is called and its request raises.
PostPrCommentFail ==
    /\ pc = "post"
    /\ post_calls' = Append(post_calls, report[1])
    /\ Abort("post_pr_comment")
    /\ UNCHANGED << diff, idx, files, current, change_summary, filtered_diff,
                    body, report >>

Next ==
    \/ ReadEvent
    \/ ReadEventFail
    \/ GetPrDiff
    \/ GetPrDiffFail
    \/ ParseStep
    \/ Exclude
    \/ BuildChangeSummary
    \/ FilterDiff
    \/ CallNarrative
    \/ CallNarrativeFail
    \/ AssembleReport
    \/ PostPrComment
    \/ PostPrCommentFail

Spec ==
    Init /\ [][Next]_vars

\* ===================================================================== claims
\* ------------------------------------------------ vocabulary of the claims
\* The lines of the fetched diff.
D ==
    diff[1]

IsHeaderAt(lines, i) ==
    StartsWith(lines[i], DIFF_GIT)

HeadersOf(lines) ==
    { h \in 1..Len(lines) : IsHeaderAt(lines, h) }

\* The header line i stands under (i itself when a header), 0 before the first.
Governing(lines, i) ==
    IF \E h \in HeadersOf(lines) : h <= i
    THEN CHOOSE h \in HeadersOf(lines) :
           h <= i /\ \A g \in HeadersOf(lines) : g <= i => g <= h
    ELSE 0

\* The body lines of the block that header h opens.
BlockOf(lines, h) ==
    { i \in 1..Len(lines) : i > h /\ Governing(lines, i) = h }

\* The key the parser records for header h.
KeyAt(lines, h) ==
    HeaderPath(Split(lines[h]))

\* The path that follows the b/ marker of header h.
PostChangePath(line) ==
    LET parts == Split(line) IN SubSeq(parts[4], 3, Len(parts[4]))

\* No later header records the key of h.
IsLastOfKey(lines, h) ==
    \A g \in HeadersOf(lines) : g > h => KeyAt(lines, g) # KeyAt(lines, h)

\* The marker that opens a hunk.
HUNK_MARK ==
    << "@", "@" >>

\* A '+++' or '---' line of block h is a file-header line when no hunk
\* marker precedes it in the block; after a hunk marker it is content.
InHunk(lines, h, i) ==
    \E j \in BlockOf(lines, h) : j < i /\ StartsWith(lines[j], HUNK_MARK)

AddedLinesOf(lines, h) ==
    { i \in BlockOf(lines, h) :
        /\ StartsWith(lines[i], PLUS)
        /\ ~(StartsWith(lines[i], PLUS3) /\ ~InHunk(lines, h, i)) }

RemovedLinesOf(lines, h) ==
    { i \in BlockOf(lines, h) :
        /\ StartsWith(lines[i], MINUS)
        /\ ~(StartsWith(lines[i], MINUS3) /\ ~InHunk(lines, h, i)) }

\* The elements of a set of numbers in increasing order.
RECURSIVE Ascending(_)
Ascending(S) ==
    IF S = {} THEN << >>
    ELSE LET m == CHOOSE x \in S : \A y \in S : x <= y
         IN  << m >> \o Ascending(S \ {m})

\* The number a formatted cell shows.
RECURSIVE CellValue(_)
CellValue(cell) ==
    IF cell = << >> THEN 0
    ELSE IF cell[Len(cell)] = " " THEN CellValue(SubSeq(cell, 1, Len(cell) - 1))
    ELSE LET d == CHOOSE n \in 0..9 : Digits[n + 1] = cell[Len(cell)]
         IN  10 * CellValue(SubSeq(cell, 1, Len(cell) - 1)) + d

\* The sum of the numbers a sequence of cells shows.
RECURSIVE SumCells(_)
SumCells(cells) ==
    IF cells = << >> THEN 0 ELSE CellValue(Head(cells)) + SumCells(Tail(cells))

\* The parsing loop of lines 33-48 run over all of `lines` from line k on;
\* None when line 36 raises.
RECURSIVE ParseAll(_, _, _, _)
ParseAll(lines, k, fs, cur) ==
    IF k > Len(lines)
    THEN Some(fs)
    ELSE LET r == ParseLine(fs, cur, lines[k])
         IN  IF r.raised THEN None ELSE ParseAll(lines, k + 1, r.files, r.current)

\* The parsing loop has ended normally and line 51 has not run yet.
Parsed ==
    pc = "exclude"

\* ------------------------------------------------------------------------ C1
\* C1: once the diff is parsed, the added count of every file block is the
\* number of its lines that begin with '+' other than the '+++' file-header
\* line, and its removed count the number of its lines that begin with '-'
\* other than the '---' file-header line, whatever the content of the lines.
\* Stated for the blocks with a non-empty path that no later header repeats.
C1_CountsAreContentLines ==
    Parsed =>
      \A h \in HeadersOf(D) :
        (KeyAt(D, h) # << >> /\ IsLastOfKey(D, h)) =>
          /\ KeyAt(D, h) \in DOMAIN files.data
          /\ files.data[KeyAt(D, h)].adds = Cardinality(AddedLinesOf(D, h))
          /\ files.data[KeyAt(D, h)].removes = Cardinality(RemovedLinesOf(D, h))

\* ------------------------------------------------------------------------ C2
\* C2: parsing is total: on no input text, malformed or truncated headers
\* included, does a loop over the diff lines raise.
C2_ParsingNeverRaises ==
    failed \notin { "parse", "filter" }

\* ------------------------------------------------------------------------ C4
\* The diff without the blocks (header and body lines) of the files whose
\* post-change path is under .github/.
WithoutExcludedFiles(lines) ==
    LET gone(i) ==
          LET h == Governing(lines, i)
          IN  /\ h > 0
              /\ Len(Split(lines[h])) >= 4
              /\ StartsWith(PostChangePath(lines[h]), GITHUB_PREFIX)
    IN  [k \in 1..Cardinality({ i \in 1..Len(lines) : ~gone(i) }) |->
           lines[Ascending({ i \in 1..Len(lines) : ~gone(i) })[k]]]

\* C4: a file whose path is under .github/ contributes nothing to the change
\* summary, neither a row nor counts in the totals: the summary of a diff is
\* the summary of the diff without the blocks of those files.
C4_ExcludedFilesContributeNothing ==
    change_summary # None =>
      LET rest == ParseAll(WithoutExcludedFiles(D), 1, EmptyDict, None)
      IN  /\ rest # None
          /\ change_summary[1] = ChangeSummary(ExcludeGithub(rest[1]))

\* ------------------------------------------------------------------------ C6
\* C6: after the loop has handled a header 'diff --git a/<old> b/<new>', the
\* current file is <new>, the path after the b/ marker, and <new> is in
\* `files` with added and removed counters at zero.
C6_KeyIsPostChangePath ==
    (pc \in { "parse", "exclude" } /\ idx > 1) =>
      LET line == D[idx - 1]
      IN  (StartsWith(line, DIFF_GIT) /\ Len(Split(line)) >= 4) =>
            /\ current = Some(PostChangePath(line))
            /\ PostChangePath(line) \in DOMAIN files.data
            /\ files.data[PostChangePath(line)].adds = 0
            /\ files.data[PostChangePath(line)].removes = 0

\* ------------------------------------------------------------------------ C3
\* C3: post_pr_comment is called only after the diff was fetched and the
\* narrative generator answered, at most once, and with the complete report
\* of that diff's change summary and that answer; when the event read, the
\* fetch, the parsing, the narrative call or the report construction raised,
\* it is never called.
C3_PostOnlyCompleteReport ==
    /\ post_calls # << >> =>
          /\ diff # None
          /\ body # None
          /\ body[1] # NoContent
          /\ change_summary # None
          /\ report # None
          /\ post_calls = << report[1] >>
          /\ report[1] = Report(change_summary[1], body[1])
          /\ pc \in { "done", "aborted" }
    /\ failed \in { "read_event", "get_pr_diff", "parse", "filter", "narrative",
                     "assemble" } => post_calls = << >>

\* A run that posted its report and ended.
C3_Witness ==
    /\ pc = "done"
    /\ Len(post_calls) = 1
    /\ Len(post_calls[1].change_summary.rows) >= 1

\* ------------------------------------------------------------------------ C5
\* C5: in the change summary the total row shows, for added and for removed,
\* the sum of what the rows show, and as grand total the sum of the two; with
\* no row all three are 0.  The rows are those of the files left by line 51.
C5_TotalsAreSumOfRows ==
    change_summary # None =>
      LET cs   == change_summary[1]
          adds == SumCells([k \in 1..Len(cs.rows) |-> cs.rows[k].adds])
          rems == SumCells([k \in 1..Len(cs.rows) |-> cs.rows[k].removes])
      IN  /\ Len(cs.rows) = Len(files.order)
          /\ CellValue(cs.total.adds) = adds
          /\ CellValue(cs.total.removes) = rems
          /\ CellValue(cs.total.total) = adds + rems
          /\ \A k \in 1..Len(cs.rows) :
                CellValue(cs.rows[k].total)
                  = CellValue(cs.rows[k].adds) + CellValue(cs.rows[k].removes)
          /\ cs.rows = << >> =>
                /\ CellValue(cs.total.adds) = 0
                /\ CellValue(cs.total.removes) = 0
                /\ CellValue(cs.total.total) = 0

\* A summary with added and removed lines, beside an excluded file that has
\* added lines of its own.
C5_Witness ==
    /\ change_summary # None
    /\ Len(change_summary[1].rows) >= 1
    /\ CellValue(change_summary[1].total.adds) >= 2
    /\ CellValue(change_summary[1].total.removes) >= 1
    /\ \E h \in HeadersOf(D) :
         /\ StartsWith(KeyAt(D, h), GITHUB_PREFIX)
         /\ AddedLinesOf(D, h) # {}

\* ------------------------------------------------------------------------ C7
\* The headers whose recorded path appears for the first time and is not
\* under .github/.
FirstSeenHeaders(lines) ==
    { h \in HeadersOf(lines) :
        /\ ~StartsWith(KeyAt(lines, h), GITHUB_PREFIX)
        /\ \A g \in HeadersOf(lines) : g < h => KeyAt(lines, g) # KeyAt(lines, h) }

Handled ==
    SubSeq(D, 1, idx - 1)

HasLine(lines, h, prefix) ==
    \E i \in BlockOf(lines, h) : StartsWith(lines[i], prefix)

\* C8 as claimed: once the diff is parsed, the file of every block (with a
\* non-empty path) that holds a 'new file mode' line and no 'deleted file
\* mode' line is marked created and not deleted, and the file of every
\* block that holds a 'deleted file mode' line and no 'new file mode' line
\* is marked deleted and not created.
C8_EveryBlockMarksItsFile ==
    Parsed =>
      \A h \in HeadersOf(D) :
        KeyAt(D, h) # << >> =>
          LET stats == files.data[KeyAt(D, h)]
          IN  /\ (HasLine(D, h, NEW_FILE_MODE) /\ ~HasLine(D, h, DELETED_FILE_MODE))
                    => (stats.added /\ ~stats.deleted)
              /\ (HasLine(D, h, DELETED_FILE_MODE) /\ ~HasLine(D, h, NEW_FILE_MODE))
                    => (stats.deleted /\ ~stats.added)

\* C8 as amended: at every point of the parsing loop a file is marked
\* created exactly when the last block of its path handled so far holds a
\* 'new file mode' line and the path is not empty, and marked deleted exactly
\* when that block holds a 'deleted file mode' line and the path is not
\* empty.  So a block with only one of the two mode lines that no later
\* header of the same path follows has its file marked the one way and not
\* the other, a mode line before any header marks no file, and a mode line
\* changes the flags of the current file only.
C8_LastBlockMarksItsFile ==
    (diff # None /\ pc \in { "parse", "exclude" }) =>
      /\ DOMAIN files.data = { KeyAt(Handled, h) : h \in HeadersOf(Handled) }
      /\ \A h \in HeadersOf(Handled) :
            IsLastOfKey(Handled, h) =>
              LET stats == files.data[KeyAt(Handled, h)]
                  named == KeyAt(Handled, h) # << >>
              IN  /\ stats.added = (named /\ HasLine(Handled, h, NEW_FILE_MODE))
                  /\ stats.deleted = (named /\ HasLine(Handled, h, DELETED_FILE_MODE))

\* A parsed diff of two files where a mode line under the second header has
\* marked the second file created and left the first unmarked.
C8_Witness ==
    /\ Parsed
    /\ \E k1, k2 \in DOMAIN files.data :
         /\ k1 # k2
         /\ files.data[k1].added /\ ~files.data[k1].deleted
         /\ ~files.data[k2].added /\ ~files.data[k2].deleted

\* ------------------------------------------------------------------------ C9
\* The section of title t the report is to show: the text, without the blank
\* lines at its ends, between the last header of that title that a newline
\* follows and the next header or the end of the response.
SectionShown(b, t) ==
    LET matches == { j \in 1..(Len(b) - 1) : b[j].title = t }
    IN  IF matches = {}
        THEN << >>
        ELSE LET j == CHOOSE x \in matches : \A y \in matches : y <= x
                 e == IF \E x \in (j + 1)..Len(b) : b[x].title # ""
                      THEN CHOOSE x \in (j + 1)..Len(b) :
                             /\ b[x].title # ""
                             /\ \A y \in (j + 1)..(x - 1) : b[y].title = ""
                      ELSE Len(b) + 1
             IN  StripLines([k \in 1..(e - j - 1) |-> b[j + k].text])

IsMarker(l) ==
    l \in { REPORT_TITLE, SUMMARY_1, CHANGE_SUMMARY_SLOT, SUMMARY_2, SUMMARY_3 }

\* The lines of ls after the first occurrence of l.
RECURSIVE After(_, _)
After(ls, l) ==
    IF ls = << >> THEN << >>
    ELSE IF Head(ls) = l THEN Tail(ls) ELSE After(Tail(ls), l)

\* The lines of ls before the first occurrence of l.
RECURSIVE Before(_, _)
Before(ls, l) ==
    IF ls = << >> \/ Head(ls) = l THEN << >> ELSE << Head(ls) >> \o Before(Tail(ls), l)

\* C9: a report opens with the fixed header, then the Change Summary section
\* with the table, present whatever the response holds; the Overview text
\* follows the table inside that section, then the File-level Changes
\* section, then the Recommendations section, each at most once, each there
\* exactly when the response has a non-empty section of that title, and
\* each with that section's text, whatever the order and number of the
\* sections in the response.
C9_FixedSectionOrder ==
    report # None =>
      LET ls       == report[1].lines
          b        == body[1]
          overview == SectionShown(b, TITLE_OVERVIEW)
          changes  == SectionShown(b, TITLE_FILE_LEVEL)
          recs     == SectionShown(b, TITLE_RECOMMENDATIONS)
      IN  /\ report[1].change_summary = change_summary[1]
          /\ SubSeq(ls, 1, 6)
               = << REPORT_TITLE, "", DETAILS_OPEN, SUMMARY_1, "", CHANGE_SUMMARY_SLOT >>
          /\ SelectSeq(ls, IsMarker)
               = << REPORT_TITLE, SUMMARY_1, CHANGE_SUMMARY_SLOT >>
                 \o (IF changes = << >> THEN << >> ELSE << SUMMARY_2 >>)
                 \o (IF recs = << >> THEN << >> ELSE << SUMMARY_3 >>)
          /\ Before(After(ls, CHANGE_SUMMARY_SLOT), DETAILS_CLOSE)
               = (IF overview = << >> THEN << >> ELSE << "" >> \o overview)
          /\ changes # << >> =>
                Before(After(ls, SUMMARY_2), DETAILS_CLOSE) = << "" >> \o changes
          /\ recs # << >> =>
                Before(After(ls, SUMMARY_3), DETAILS_CLOSE) = << "" >> \o recs

\* A report with both later sections, built from a response that gives the
\* Recommendations section before the File-level Changes section.
C9_Witness ==
    /\ report # None
    /\ \E i, j \in 1..Len(body[1]) :
         /\ i < j
         /\ body[1][i].title = TITLE_RECOMMENDATIONS
         /\ body[1][j].title = TITLE_FILE_LEVEL
    /\ \E i, j \in 1..Len(report[1].lines) :
         /\ i < j
         /\ report[1].lines[i] = SUMMARY_2
         /\ report[1].lines[j] = SUMMARY_3

\* ----------------------------------------------------------------------- C10
\* The lines of the diff that stand before the first header or in a block
\* (header included) whose recorded path is not under .github/.
KeptLines(lines) ==
    { i \in 1..Len(lines) :
        LET h == Governing(lines, i)
        IN  h = 0 \/ ~StartsWith(KeyAt(lines, h), GITHUB_PREFIX) }

====
